---- MODULE Spec2Model ----
(***************************************************************************)
(* Camera streaming and capture subsystem (src-tauri/src/camera.rs).       *)
(*                                                                         *)
(* The three process-wide statics CAMERA_RUNNING, STOP_SIGNAL and          *)
(* LATEST_FRAME are shared by the command handlers (start_camera_stream,   *)
(* stop_camera_stream, capture_photo), which run on the caller threads of  *)
(* the async runtime, and by the detached threads that execute             *)
(* run_camera_stream.  Every action below is one atomic access to that     *)
(* shared state or to the file system (a SeqCst load or store, one         *)
(* critical section of the RwLock, one emit, one file system call), so     *)
(* that every interleaving of the handlers and the workers is explored.    *)
(* Spec explores two threads issuing start and stop; SpecPhoto explores    *)
(* capture_photo next to one thread issuing start and stop; SpecPace is    *)
(* the capture loop on a millisecond clock.                                *)
(*                                                                         *)
(* Two collaborators of the camera are modelled as well: get_volume of     *)
(* system.rs on the text its audio commands print (SpecVolume), and the    *)
(* socket relays of provisioning_ipc.rs and voice_agent_ipc.rs             *)
(* (SpecRelay, and SpecRelayLive with the fairness of the listener).       *)
(***************************************************************************)
EXTENDS Naturals, Sequences, FiniteSets, TLC

\* ---------------------------------------------------------------- bounds
\* Number of successful capture cycles (frames published) in one worker's
\* life; failed cycles and command invocations are not limited.
MaxCycles == 1

\* Last instant (ms on the monotonic clock) at which a capture cycle of the
\* timed view may still begin its work.
MaxTime == 200

\* Number of lines a relay receives from its socket, over all connections;
\* connections, failures and reconnections are not limited.
MaxLines == 2

\* ------------------------------------------------------ program constants
\* camera.rs:38  const TARGET_FPS: u64 = 25
TARGET_FPS == 25

\* camera.rs:94  `attempts < 50`
StopAttempts == 50

\* Threads of the runtime on which the command handlers run.
Callers == {"a", "b"}
\* Threads available to thread::spawn: the workers alive at one time.
ThreadPool == <<"w1", "w2">>
Threads == {ThreadPool[i] : i \in 1..Len(ThreadPool)}
\* Distinct encoded JPEG buffers a cycle can produce, as byte sequences:
\* neither is a prefix of the other, and their lengths leave one and two
\* bytes over a multiple of three.
Frames == {<<255, 216, 10, 20>>, <<255, 216, 30, 40, 50>>}
\* Option<T>: None, and Some(x).  Also the absence of a worker's jpeg_bytes
\* local and of the payload it emitted.
None == <<>>
Some(x) == <<x>>

VARIABLES
    CAMERA_RUNNING,  \* camera.rs:22  static AtomicBool
    STOP_SIGNAL,     \* camera.rs:23  static AtomicBool
    LATEST_FRAME,    \* camera.rs:27  Arc<RwLock<Option<Vec<u8>>>>
    pc,              \* per caller thread: position inside the running handler, or,
                     \* between two invocations, what the latest one returned
    attempts,        \* per caller thread: camera.rs:93 `let mut attempts`
    lastSeen,        \* per caller thread: what its latest load of CAMERA_RUNNING returned
    workers,         \* per worker thread: position and locals of run_camera_stream
    capture,         \* the thread serving capture_photo: position, locals, what the
                     \* latest invocation returned and the events it emitted
    fs,              \* the file system: the camera directory and its files
    timing,          \* one worker's loop seen with its clock: camera.rs:204-266
    audio,           \* one get_volume call: what the backend printed, the result
    relay            \* one socket listener: its position, the lines on its
                     \* connection and the events it emitted

vars == <<CAMERA_RUNNING, STOP_SIGNAL, LATEST_FRAME, pc, attempts, lastSeen,
          workers, capture, fs, timing, audio, relay>>

photoVars == <<capture, fs>>
otherVars == <<timing, audio, relay>>

shared == <<CAMERA_RUNNING, STOP_SIGNAL, LATEST_FRAME>>

\* A thread that runs no worker: before thread::spawn, or after
\* run_camera_stream returned.
NoWorker ==
    [pc |-> "free", cam |-> FALSE, stream |-> FALSE, fatal |-> FALSE,
     jpeg |-> None, sent |-> None, pubs |-> 0, frameEv |-> 0, errEv |-> 0]

\* A thread just created by thread::spawn, before it executed anything.
NewWorker == [NoWorker EXCEPT !.pc = "spawned"]

Live(w) == workers[w].pc # "free"

\* The worker's stream is open: from open_stream's success to stop_stream.
Streaming(w) == workers[w].stream

StopPcs == {"stop_signal", "stop_poll", "stop_final"}

\* stop_camera_stream blocks its caller for up to 2.5 s; the explored
\* environment has one stop request in flight at a time.
NoStopInFlight == \A d \in Callers : pc[d] \notin StopPcs

\* Results of start_camera_stream (camera.rs:67, 79) and of
\* stop_camera_stream (camera.rs:86, 100, 103).
StartResults == {"already_running", "started"}
StopOk == {"not_running", "stopped"}
StopResults == StopOk \cup {"timeout"}

\* Thread c runs no handler: it never ran one, or its latest one returned.
Idle(c) == pc[c] \in {"idle"} \cup StartResults \cup StopResults

\* The handler on thread c returns `res`; its locals are gone.
Return(c, res) ==
    /\ pc' = [pc EXCEPT ![c] = res]
    /\ attempts' = [attempts EXCEPT ![c] = 0]
    /\ lastSeen' = [lastSeen EXCEPT ![c] = FALSE]

Goto(c, loc, seen) ==
    /\ pc' = [pc EXCEPT ![c] = loc]
    /\ lastSeen' = [lastSeen EXCEPT ![c] = seen]
    /\ UNCHANGED attempts

\* Result<T, String> of a command.
Ok(x) == <<"Ok", x>>
Err(e) == <<"Err", e>>

\* camera.rs:129  what dirs::picture_dir() resolves to when it resolves.
PicturesDir == "/home/pi/Pictures"

\* camera.rs:139  values Local::now() can return: two instants within one
\* second and one in another month, hour and minute.
Instants ==
    { [year |-> 2026, month |-> 1, day |-> 5, hour |-> 9, minute |-> 3,
       second |-> 7, milli |-> 120],
      [year |-> 2026, month |-> 1, day |-> 5, hour |-> 9, minute |-> 3,
       second |-> 7, milli |-> 870],
      [year |-> 2026, month |-> 11, day |-> 23, hour |-> 14, minute |-> 30,
       second |-> 0, milli |-> 0] }

\* chrono's %m, %d, %H, %M, %S: two digits, zero-padded; %Y: four digits.
ZeroPad2(n) == IF n < 10 THEN "0" \o ToString(n) ELSE ToString(n)
ZeroPad4(n) ==
    IF n < 10 THEN "000" \o ToString(n)
    ELSE IF n < 100 THEN "00" \o ToString(n)
    ELSE IF n < 1000 THEN "0" \o ToString(n)
    ELSE ToString(n)

\* Variant of Timestamp: the milliseconds are part of the name.
TimestampWithMillis(t) ==
    ZeroPad4(t.year) \o ZeroPad2(t.month) \o ZeroPad2(t.day) \o "_"
    \o ZeroPad2(t.hour) \o ZeroPad2(t.minute) \o ZeroPad2(t.second)
    \o "_" \o ToString(t.milli)

\* Variant of Timestamp: the fields are printed without zero padding.
TimestampUnpadded(t) ==
    ToString(t.year) \o ToString(t.month) \o ToString(t.day) \o "_"
    \o ToString(t.hour) \o ToString(t.minute) \o ToString(t.second)

\* camera.rs:139  Local::now().format("%Y%m%d_%H%M%S"): the sub-second part
\* of the instant is dropped.
Timestamp(t) ==
    ZeroPad4(t.year) \o ZeroPad2(t.month) \o ZeroPad2(t.day) \o "_"
    \o ZeroPad2(t.hour) \o ZeroPad2(t.minute) \o ZeroPad2(t.second)

\* camera.rs:130, 140-141  pictures_dir.join("honeybee-camera")
\*                             .join(format!("IMG_{}.jpg", timestamp))
CameraDir == PicturesDir \o "/" \o "honeybee-camera"
PhotoPath(t) == CameraDir \o "/" \o "IMG_" \o Timestamp(t) \o ".jpg"

\* Every path capture_photo can write to.
FileNames == {PhotoPath(t) : t \in Instants}

\* camera.rs:54-60  struct PhotoSaved
PhotoSaved(path, success, error) ==
    [path |-> path, success |-> success, error |-> error]

\* The Display text of the std::io::Error a failing file system call returns.
IoError == "Permission denied (os error 13)"

\* The capture_photo thread between two invocations, before the first one.
NoCapture ==
    [pc |-> "idle", data |-> None, now |-> None, path |-> None, ret |-> None,
     events |-> <<>>]

\* The loop's clock before the first cycle: time 0, no cycle begun.
NoTiming ==
    [pc |-> "top", now |-> 0, frameStart |-> 0, ok |-> TRUE,
     asked |-> 0, runStart |-> 0, runLen |-> 0]

\* No get_volume call made.
NoAudio ==
    [pc |-> "idle", wpctl |-> FALSE, pactl |-> FALSE, run |-> "ok",
     stdout |-> <<>>, ret |-> None]

\* No listener started.
NoRelay ==
    [pc |-> "off", kind |-> "none", running |-> TRUE, exists |-> FALSE,
     got |-> <<>>, conn |-> 0, log |-> <<>>, slept |-> 0]

CameraInit ==
    /\ CAMERA_RUNNING = FALSE
    /\ STOP_SIGNAL = FALSE
    /\ LATEST_FRAME = None
    /\ pc = [c \in Callers |-> "idle"]
    /\ attempts = [c \in Callers |-> 0]
    /\ lastSeen = [c \in Callers |-> FALSE]
    /\ workers = [w \in Threads |-> NoWorker]
    /\ capture = NoCapture
    /\ fs = [dir |-> FALSE, files |-> [n \in FileNames |-> None]]

Init ==
    /\ CameraInit
    /\ timing = NoTiming
    /\ audio = NoAudio
    /\ relay = NoRelay

\* ------------------------------------------------- start_camera_stream
\* Variant of StartCheck: the reset of camera.rs:71 hoisted above the check.
StartCheckResetsFirst(c) ==
    /\ Idle(c)
    /\ STOP_SIGNAL' = FALSE
    /\ IF CAMERA_RUNNING
       THEN Return(c, "already_running")
       ELSE Goto(c, "start_reset", FALSE)
    /\ UNCHANGED <<CAMERA_RUNNING, LATEST_FRAME, workers, photoVars, otherVars>>

\* camera.rs:64-68  load CAMERA_RUNNING; early return when already running.
StartCheck(c) ==
    /\ Idle(c)
    /\ IF CAMERA_RUNNING
       THEN Return(c, "already_running")
       ELSE Goto(c, "start_reset", FALSE)
    /\ UNCHANGED <<shared, workers, photoVars, otherVars>>

\* Variant of StartReset: the flag is not reset before the spawn.
StartResetSkipped(c) ==
    /\ pc[c] = "start_reset"
    /\ Goto(c, "start_spawn", lastSeen[c])
    /\ UNCHANGED <<shared, workers, photoVars, otherVars>>

\* camera.rs:71  STOP_SIGNAL.store(false)
StartReset(c) ==
    /\ pc[c] = "start_reset"
    /\ STOP_SIGNAL' = FALSE
    /\ Goto(c, "start_spawn", lastSeen[c])
    /\ UNCHANGED <<CAMERA_RUNNING, LATEST_FRAME, workers, photoVars, otherVars>>

\* camera.rs:74-79  thread::spawn(run_camera_stream); Ok("Camera stream started")
StartSpawn(c) ==
    /\ pc[c] = "start_spawn"
    /\ \E i \in 1..Len(ThreadPool) :
         /\ ~Live(ThreadPool[i])
         /\ \A j \in 1..(i - 1) : Live(ThreadPool[j])
         /\ workers' = [workers EXCEPT ![ThreadPool[i]] = NewWorker]
    /\ Return(c, "started")
    /\ UNCHANGED <<shared, photoVars, otherVars>>

\* -------------------------------------------------- stop_camera_stream
\* camera.rs:84-87  load CAMERA_RUNNING; early return when not running.
StopCheck(c) ==
    /\ Idle(c)
    /\ NoStopInFlight
    /\ IF ~CAMERA_RUNNING
       THEN Return(c, "not_running")
       ELSE Goto(c, "stop_signal", TRUE)
    /\ UNCHANGED <<shared, workers, photoVars, otherVars>>

\* camera.rs:90-93  STOP_SIGNAL.store(true); let mut attempts = 0
StopSignal(c) ==
    /\ pc[c] = "stop_signal"
    /\ STOP_SIGNAL' = TRUE
    /\ pc' = [pc EXCEPT ![c] = "stop_poll"]
    /\ attempts' = [attempts EXCEPT ![c] = 0]
    /\ UNCHANGED <<CAMERA_RUNNING, LATEST_FRAME, lastSeen, workers, photoVars, otherVars>>

\* camera.rs:94-97  one evaluation of the loop condition (a load of
\* CAMERA_RUNNING, then the bound); when it holds, the 50 ms sleep and the
\* increment of the body.  `attempts` is not read after the loop.
StopPoll(c) ==
    /\ pc[c] = "stop_poll"
    /\ IF CAMERA_RUNNING /\ attempts[c] < StopAttempts
       THEN /\ attempts' = [attempts EXCEPT ![c] = @ + 1]
            /\ UNCHANGED <<pc, lastSeen>>
       ELSE /\ pc' = [pc EXCEPT ![c] = "stop_final"]
            /\ lastSeen' = [lastSeen EXCEPT ![c] = CAMERA_RUNNING]
            /\ attempts' = [attempts EXCEPT ![c] = 0]
    /\ UNCHANGED <<shared, workers, photoVars, otherVars>>

\* Variant of StopFinal: a timed-out stop withdraws its request.
StopFinalRetracts(c) ==
    /\ pc[c] = "stop_final"
    /\ IF CAMERA_RUNNING
       THEN Return(c, "timeout") /\ STOP_SIGNAL' = FALSE
       ELSE Return(c, "stopped") /\ STOP_SIGNAL' = STOP_SIGNAL
    /\ UNCHANGED <<CAMERA_RUNNING, LATEST_FRAME, workers, photoVars, otherVars>>

\* camera.rs:99-103  the load after the loop decides the result.
StopFinal(c) ==
    /\ pc[c] = "stop_final"
    /\ IF CAMERA_RUNNING
       THEN Return(c, "timeout")
       ELSE Return(c, "stopped")
    /\ UNCHANGED <<shared, workers, photoVars, otherVars>>

\* --------------------------------------------------- run_camera_stream
\* camera.rs:31-32  CAMERA_WIDTH, CAMERA_HEIGHT
CAMERA_WIDTH == 640
CAMERA_HEIGHT == 480

\* base64::engine::general_purpose::STANDARD.encode (camera.rs:244): every
\* three bytes become four 6-bit symbols (numbers 0..63 into the standard
\* alphabet); a last group of one or two bytes is zero-filled and padded with
\* '=' (written Pad) to four symbols.
Pad == 64
RECURSIVE Base64Encode(_)
Base64Encode(b) ==
    IF Len(b) = 0 THEN <<>>
    ELSE IF Len(b) = 1 THEN
        <<b[1] \div 4, (b[1] % 4) * 16, Pad, Pad>>
    ELSE IF Len(b) = 2 THEN
        <<b[1] \div 4, (b[1] % 4) * 16 + b[2] \div 16, (b[2] % 16) * 4, Pad>>
    ELSE
        <<b[1] \div 4, (b[1] % 4) * 16 + b[2] \div 16,
          (b[2] % 16) * 4 + b[3] \div 64, b[3] % 64>>
        \o Base64Encode(SubSeq(b, 4, Len(b)))

\* The inverse a consumer of the event applies (STANDARD.decode).
RECURSIVE Base64Decode(_)
Base64Decode(s) ==
    IF Len(s) < 4 THEN <<>>
    ELSE IF s[3] = Pad THEN
        <<s[1] * 4 + s[2] \div 16>>
    ELSE IF s[4] = Pad THEN
        <<s[1] * 4 + s[2] \div 16, (s[2] % 16) * 16 + s[3] \div 4>>
    ELSE
        <<s[1] * 4 + s[2] \div 16, (s[2] % 16) * 16 + s[3] \div 4,
          (s[3] % 4) * 64 + s[4]>>
        \o Base64Decode(SubSeq(s, 5, Len(s)))

\* camera.rs:40-46, 245-252  the camera-frame payload: the data URL prefix
\* followed by the base64 text, and the image size.
CameraFrame(jpeg) ==
    [prefix |-> "data:image/jpeg;base64,", b64 |-> Base64Encode(jpeg),
     width |-> CAMERA_WIDTH, height |-> CAMERA_HEIGHT]

At(w, loc) == workers[w].pc = loc

callerVars == <<pc, attempts, lastSeen>>

\* camera.rs:166-167  CAMERA_RUNNING.store(true)
WSetRunning(w) ==
    /\ At(w, "spawned")
    /\ CAMERA_RUNNING' = TRUE
    /\ workers' = [workers EXCEPT ![w].pc = "camera_new"]
    /\ UNCHANGED <<STOP_SIGNAL, LATEST_FRAME, callerVars, photoVars, otherVars>>

\* camera.rs:178-186  Camera::new succeeds or fails, as the device decides;
\* on failure the worker emits camera-error.
WCameraNew(w) ==
    /\ At(w, "camera_new")
    /\ \E ok \in BOOLEAN :
         workers' = IF ok
                    THEN [workers EXCEPT ![w].pc = "open_stream", ![w].cam = TRUE]
                    ELSE [workers EXCEPT ![w].pc = "err_store", ![w].fatal = TRUE,
                                         ![w].errEv = @ + 1]
    /\ UNCHANGED <<shared, callerVars, photoVars, otherVars>>

\* camera.rs:193-199  camera.open_stream() succeeds or fails; on failure the
\* worker emits camera-error.
WOpenStream(w) ==
    /\ At(w, "open_stream")
    /\ \E ok \in BOOLEAN :
         workers' = IF ok
                    THEN [workers EXCEPT ![w].pc = "loop", ![w].stream = TRUE]
                    ELSE [workers EXCEPT ![w].pc = "err_store", ![w].fatal = TRUE,
                                         ![w].errEv = @ + 1]
    /\ UNCHANGED <<shared, callerVars, photoVars, otherVars>>

\* Variant of WErrStore: the early return forgets to clear CAMERA_RUNNING.
WErrStoreKeepsRunning(w) ==
    /\ workers[w].pc = "err_store"
    /\ workers' = [workers EXCEPT ![w] = NoWorker]
    /\ UNCHANGED <<shared, callerVars, photoVars, otherVars>>

\* Variant of WErrStore: after a fatal failure the thread starts over and
\* tries the device again by itself.
WErrStoreRestarts(w) ==
    /\ At(w, "err_store")
    /\ CAMERA_RUNNING' = FALSE
    /\ workers' = [workers EXCEPT ![w] = NewWorker]
    /\ UNCHANGED <<STOP_SIGNAL, LATEST_FRAME, callerVars, photoVars, otherVars>>

\* Variant of WErrStore: the early return also empties the frame slot.
WErrStoreClearsFrame(w) ==
    /\ At(w, "err_store")
    /\ CAMERA_RUNNING' = FALSE
    /\ LATEST_FRAME' = None
    /\ workers' = [workers EXCEPT ![w] = NoWorker]
    /\ UNCHANGED <<STOP_SIGNAL, callerVars, photoVars, otherVars>>

\* camera.rs:187-188, 200-201  CAMERA_RUNNING.store(false); return
\* (the Camera value, when one was created, is dropped by the return).
WErrStore(w) ==
    /\ At(w, "err_store")
    /\ CAMERA_RUNNING' = FALSE
    /\ workers' = [workers EXCEPT ![w] = NoWorker]
    /\ UNCHANGED <<STOP_SIGNAL, LATEST_FRAME, callerVars, photoVars, otherVars>>

\* camera.rs:207-211, 269-270  top of the loop: load STOP_SIGNAL; when set,
\* break and camera.stop_stream().
WLoopBreak(w) ==
    /\ At(w, "loop")
    /\ STOP_SIGNAL
    /\ workers' = [workers EXCEPT ![w].pc = "clear_frame", ![w].stream = FALSE]
    /\ UNCHANGED <<shared, callerVars, photoVars, otherVars>>

\* Variant of WCycle: a failure inside the cycle is handled like the failures
\* of the open sequence: camera-error is emitted and the worker ends.
WCycleFailureFatal(w) ==
    /\ At(w, "loop")
    /\ ~STOP_SIGNAL
    /\ \/ workers' = [workers EXCEPT ![w].pc = "err_store", ![w].fatal = TRUE,
                                      ![w].errEv = @ + 1]
       \/ /\ workers[w].frameEv < MaxCycles
          /\ \E f \in Frames :
               workers' = [workers EXCEPT ![w].pc = "publish", ![w].jpeg = f]
    /\ UNCHANGED <<shared, callerVars, photoVars, otherVars>>

\* camera.rs:207-235, 257-260  top of the loop: load STOP_SIGNAL; when clear,
\* camera.frame(), decode_image, from_raw and the JPEG encode.  Any of them
\* may fail: the cycle then goes straight to the pacing.  Otherwise the cycle
\* holds jpeg_bytes.
WCycle(w) ==
    /\ At(w, "loop")
    /\ ~STOP_SIGNAL
    /\ \/ workers' = [workers EXCEPT ![w].pc = "pace"]
       \/ /\ workers[w].frameEv < MaxCycles
          /\ \E f \in Frames :
               workers' = [workers EXCEPT ![w].pc = "publish", ![w].jpeg = f]
    /\ UNCHANGED <<shared, callerVars, photoVars, otherVars>>

\* Variant of WPublish: a frame already in the slot is kept.
WPublishKeepsOlder(w) ==
    /\ At(w, "publish")
    /\ LATEST_FRAME' = IF LATEST_FRAME = None THEN Some(workers[w].jpeg)
                       ELSE LATEST_FRAME
    /\ workers' = [workers EXCEPT ![w].pc = "emit", ![w].pubs = @ + 1]
    /\ UNCHANGED <<CAMERA_RUNNING, STOP_SIGNAL, callerVars, photoVars, otherVars>>

\* Variant of WPublish: the slot is written without the lock, so that a
\* prefix of the buffer is what the slot holds.
WPublishTorn(w) ==
    /\ At(w, "publish")
    /\ \E k \in 1..Len(workers[w].jpeg) :
         LATEST_FRAME' = Some(SubSeq(workers[w].jpeg, 1, k))
    /\ workers' = [workers EXCEPT ![w].pc = "emit", ![w].pubs = @ + 1]
    /\ UNCHANGED <<CAMERA_RUNNING, STOP_SIGNAL, callerVars, photoVars, otherVars>>

\* camera.rs:237-241  *LATEST_FRAME.write() = Some(jpeg_bytes.clone())
WPublish(w) ==
    /\ At(w, "publish")
    /\ LATEST_FRAME' = Some(workers[w].jpeg)
    /\ workers' = [workers EXCEPT ![w].pc = "emit", ![w].pubs = @ + 1]
    /\ UNCHANGED <<CAMERA_RUNNING, STOP_SIGNAL, callerVars, photoVars, otherVars>>

\* Variant of WEmit: STOP_SIGNAL is read again before the emit, and a cycle
\* in flight is abandoned when it is set.
WEmitChecksStop(w) ==
    /\ At(w, "emit")
    /\ workers' = IF STOP_SIGNAL
                  THEN [workers EXCEPT ![w].pc = "clear_frame", ![w].stream = FALSE,
                                       ![w].jpeg = None]
                  ELSE [workers EXCEPT ![w].pc = "pace", ![w].frameEv = @ + 1,
                                       ![w].sent = Some(CameraFrame(workers[w].jpeg))]
    /\ UNCHANGED <<shared, callerVars, photoVars, otherVars>>

\* Variant of WEmit: the event carries the result of a second encode of the
\* image, which need not give the bytes of the first.
WEmitReencodes(w) ==
    /\ At(w, "emit")
    /\ \E f \in Frames :
         workers' = [workers EXCEPT ![w].pc = "pace", ![w].frameEv = @ + 1,
                                    ![w].sent = Some(CameraFrame(f))]
    /\ UNCHANGED <<shared, callerVars, photoVars, otherVars>>

\* camera.rs:243-253  base64_data = STANDARD.encode(&jpeg_bytes);
\* app.emit("camera-frame", CameraFrame {data, width, height})
WEmit(w) ==
    /\ At(w, "emit")
    /\ workers' = [workers EXCEPT ![w].pc = "pace", ![w].frameEv = @ + 1,
                                  ![w].sent = Some(CameraFrame(workers[w].jpeg))]
    /\ UNCHANGED <<shared, callerVars, photoVars, otherVars>>

\* camera.rs:262-267  the pacing sleep that ends every cycle, failed or not;
\* the cycle's locals are dropped.
WPace(w) ==
    /\ At(w, "pace")
    /\ workers' = [workers EXCEPT ![w].pc = "loop", ![w].jpeg = None,
                                  ![w].sent = None]
    /\ UNCHANGED <<shared, callerVars, photoVars, otherVars>>

\* Variant of WClearFrame: cleanup leaves the last frame in the slot.
WClearFrameKeepsFrame(w) ==
    /\ workers[w].pc = "clear_frame"
    /\ workers' = [workers EXCEPT ![w].pc = "clear_running"]
    /\ UNCHANGED <<shared, callerVars, photoVars, otherVars>>

\* camera.rs:272-276  *LATEST_FRAME.write() = None
WClearFrame(w) ==
    /\ At(w, "clear_frame")
    /\ LATEST_FRAME' = None
    /\ workers' = [workers EXCEPT ![w].pc = "clear_running"]
    /\ UNCHANGED <<CAMERA_RUNNING, STOP_SIGNAL, callerVars, photoVars, otherVars>>

\* camera.rs:278  CAMERA_RUNNING.store(false)
WClearRunning(w) ==
    /\ At(w, "clear_running")
    /\ CAMERA_RUNNING' = FALSE
    /\ workers' = [workers EXCEPT ![w].pc = "reset_stop"]
    /\ UNCHANGED <<STOP_SIGNAL, LATEST_FRAME, callerVars, photoVars, otherVars>>

\* camera.rs:279-282  STOP_SIGNAL.store(false); the function returns and
\* drops the Camera value.
WResetStop(w) ==
    /\ At(w, "reset_stop")
    /\ STOP_SIGNAL' = FALSE
    /\ workers' = [workers EXCEPT ![w] = NoWorker]
    /\ UNCHANGED <<CAMERA_RUNNING, LATEST_FRAME, callerVars, photoVars, otherVars>>

\* -------------------------------------------------------- capture_photo
\* capture_photo returns `res`; its locals are gone.  What it returned and
\* the photo-saved events it emitted stay visible until the next invocation.
PhotoReturn(res, emitted) ==
    capture' = [NoCapture EXCEPT !.ret = res, !.events = emitted]

\* Variant of PRead: the frame is taken out of the slot (Option::take)
\* instead of cloned.
PReadTakes ==
    /\ capture.pc = "idle"
    /\ IF LATEST_FRAME = None
       THEN LET result == PhotoSaved("", FALSE,
                   Some("No frame available. Is the camera streaming?"))
            IN PhotoReturn(Ok(result), <<result>>)
       ELSE capture' = [NoCapture EXCEPT !.pc = "dir", !.data = LATEST_FRAME[1]]
    /\ LATEST_FRAME' = None
    /\ UNCHANGED <<CAMERA_RUNNING, STOP_SIGNAL, callerVars, workers, fs, otherVars>>

\* Variant of PRead: an empty slot is reported as an error of the command,
\* without an event.
PReadErrOnEmpty ==
    /\ capture.pc = "idle"
    /\ IF LATEST_FRAME = None
       THEN PhotoReturn(Err("No frame available. Is the camera streaming?"), <<>>)
       ELSE capture' = [NoCapture EXCEPT !.pc = "dir", !.data = LATEST_FRAME[1]]
    /\ UNCHANGED <<shared, callerVars, workers, fs, otherVars>>

\* camera.rs:108-127  clone the slot under the read lock; an empty slot ends
\* the command with a failure result and its event.
PRead ==
    /\ capture.pc = "idle"
    /\ IF LATEST_FRAME = None
       THEN LET result == PhotoSaved("", FALSE,
                   Some("No frame available. Is the camera streaming?"))
            IN PhotoReturn(Ok(result), <<result>>)
       ELSE capture' = [NoCapture EXCEPT !.pc = "dir", !.data = LATEST_FRAME[1]]
    /\ UNCHANGED <<shared, callerVars, workers, fs, otherVars>>

\* camera.rs:128-141  resolve the pictures directory, create the camera
\* directory when it does not exist, build the file path from the local time.
\* Both failures leave through `?`.
PDir ==
    /\ capture.pc = "dir"
    /\ \/ /\ PhotoReturn(Err("Failed to get Pictures directory"), <<>>)
          /\ UNCHANGED fs
       \/ /\ ~fs.dir
          /\ PhotoReturn(Err("Failed to create camera directory: " \o IoError),
                         <<>>)
          /\ UNCHANGED fs
       \/ /\ fs' = [fs EXCEPT !.dir = TRUE]
          /\ \E t \in Instants :
               capture' = [capture EXCEPT !.pc = "write", !.now = Some(t),
                                          !.path = Some(PhotoPath(t))]
    /\ UNCHANGED <<shared, callerVars, workers, otherVars>>

\* Variant of PWrite: the bytes written are read from the slot again at the
\* time of the write.
PWriteRereads ==
    /\ capture.pc = "write"
    /\ \/ LET result == PhotoSaved(capture.path[1], TRUE, None)
          IN /\ fs' = [fs EXCEPT !.files[capture.path[1]] =
                                    IF LATEST_FRAME = None THEN Some(<<>>)
                                    ELSE LATEST_FRAME]
             /\ PhotoReturn(Ok(result), <<result>>)
       \/ LET result == PhotoSaved("", FALSE,
                  Some("Failed to save photo: " \o IoError))
          IN /\ UNCHANGED fs
             /\ PhotoReturn(Ok(result), <<result>>)
    /\ UNCHANGED <<shared, callerVars, workers, otherVars>>

\* camera.rs:143-162  fs::write(&filepath, &jpeg_data); either way one
\* photo-saved event carrying the result, and Ok(result).
PWrite ==
    /\ capture.pc = "write"
    /\ \/ LET result == PhotoSaved(capture.path[1], TRUE, None)
          IN /\ fs' = [fs EXCEPT !.files[capture.path[1]] = Some(capture.data)]
             /\ PhotoReturn(Ok(result), <<result>>)
       \/ LET result == PhotoSaved("", FALSE,
                  Some("Failed to save photo: " \o IoError))
          IN /\ UNCHANGED fs
             /\ PhotoReturn(Ok(result), <<result>>)
    /\ UNCHANGED <<shared, callerVars, workers, otherVars>>

Next ==
    \/ \E c \in Callers : StartCheck(c)
    \/ \E c \in Callers : StartReset(c)
    \/ \E c \in Callers : StartSpawn(c)
    \/ \E c \in Callers : StopCheck(c)
    \/ \E c \in Callers : StopSignal(c)
    \/ \E c \in Callers : StopPoll(c)
    \/ \E c \in Callers : StopFinal(c)
    \/ \E w \in Threads : WSetRunning(w)
    \/ \E w \in Threads : WCameraNew(w)
    \/ \E w \in Threads : WOpenStream(w)
    \/ \E w \in Threads : WErrStore(w)
    \/ \E w \in Threads : WLoopBreak(w)
    \/ \E w \in Threads : WCycle(w)
    \/ \E w \in Threads : WPublish(w)
    \/ \E w \in Threads : WEmit(w)
    \/ \E w \in Threads : WPace(w)
    \/ \E w \in Threads : WClearFrame(w)
    \/ \E w \in Threads : WClearRunning(w)
    \/ \E w \in Threads : WResetStop(w)

Spec == Init /\ [][Next]_vars

\* The photo page: one thread issues the start and stop requests while
\* capture_photo runs on its own thread at any time.  The page's sessions do
\* not overlap: a start is requested when no earlier worker is still alive.
PhotoCallers == {"a"}
SessionOver == \A w \in Threads : ~Live(w)

NextPhoto ==
    \/ \E c \in PhotoCallers : SessionOver /\ StartCheck(c)
    \/ \E c \in PhotoCallers : StartReset(c)
    \/ \E c \in PhotoCallers : StartSpawn(c)
    \/ \E c \in PhotoCallers : StopCheck(c)
    \/ \E c \in PhotoCallers : StopSignal(c)
    \/ \E c \in PhotoCallers : StopPoll(c)
    \/ \E c \in PhotoCallers : StopFinal(c)
    \/ \E w \in Threads : WSetRunning(w)
    \/ \E w \in Threads : WCameraNew(w)
    \/ \E w \in Threads : WOpenStream(w)
    \/ \E w \in Threads : WErrStore(w)
    \/ \E w \in Threads : WLoopBreak(w)
    \/ \E w \in Threads : WCycle(w)
    \/ \E w \in Threads : WPublish(w)
    \/ \E w \in Threads : WEmit(w)
    \/ \E w \in Threads : WPace(w)
    \/ \E w \in Threads : WClearFrame(w)
    \/ \E w \in Threads : WClearRunning(w)
    \/ \E w \in Threads : WResetStop(w)
    \/ PRead
    \/ PDir
    \/ PWrite

SpecPhoto == Init /\ [][NextPhoto]_vars
\* ------------------------------------- run_camera_stream: the loop's clock
\* A timed view of the capture loop of one worker (camera.rs:204-267).  The
\* record `timing` holds the monotonic clock in milliseconds (now), the value
\* of frame_start, whether the cycle's work succeeded (ok), the duration the
\* last cycle handed to thread::sleep (asked, 0 when it did not sleep), and
\* a measurement of the current run of consecutive short cycles: the instant
\* the run began (runStart) and its length (runLen).

\* camera.rs:204  Duration::from_millis(1000 / TARGET_FPS), u64 division.
FrameInterval == 1000 \div TARGET_FPS

\* Durations (ms) of the work of one cycle (camera.rs:216-259): well under
\* the interval, just under it, exactly the interval, and over it.
WorkTimes == {5, 39, 40, 55}

\* thread::sleep sleeps at least the requested duration; it may oversleep.
Oversleep == {0, 3}

\* A sleep of the whole interval whatever the cycle's elapsed time.
SleepForWhole(elapsed) == FrameInterval

\* camera.rs:263-266  the duration handed to thread::sleep; 0 stands for
\* the branch that does not sleep.
SleepFor(elapsed) ==
    IF elapsed < FrameInterval THEN FrameInterval - elapsed ELSE 0

\* camera.rs:207-213  STOP_SIGNAL read false; frame_start = Instant::now().
CycleStart ==
    /\ timing.pc = "top"
    /\ timing.now <= MaxTime
    /\ timing' = [timing EXCEPT !.pc = "work", !.frameStart = timing.now]
    /\ UNCHANGED <<shared, callerVars, workers, photoVars, audio, relay>>

\* camera.rs:207-211  STOP_SIGNAL read true: the loop ends.
CycleBreak ==
    /\ timing.pc = "top"
    /\ timing' = [timing EXCEPT !.pc = "done"]
    /\ UNCHANGED <<shared, callerVars, workers, photoVars, audio, relay>>

\* camera.rs:216-259  camera.frame() and, when it succeeds, decode, encode,
\* publish and emit; the work takes d ms and succeeds or fails.
CycleWork ==
    /\ timing.pc = "work"
    /\ \E d \in WorkTimes, good \in BOOLEAN :
          timing' = [timing EXCEPT !.pc = "pace", !.now = timing.now + d,
                                   !.ok = good]
    /\ UNCHANGED <<shared, callerVars, workers, photoVars, audio, relay>>

\* A failed cycle goes back to the top of the loop without sleeping.
CyclePaceSkipsFailed ==
    /\ timing.pc = "pace"
    /\ LET elapsed == timing.now - timing.frameStart
           s == IF timing.ok THEN SleepFor(elapsed) ELSE 0
       IN  \E o \in (IF s > 0 THEN Oversleep ELSE {0}) :
             timing' = [timing EXCEPT
                 !.pc = "top", !.asked = s, !.now = timing.now + s + o,
                 !.runStart = IF elapsed < FrameInterval THEN @
                              ELSE timing.now + s + o,
                 !.runLen = IF elapsed < FrameInterval THEN @ + 1 ELSE 0]
    /\ UNCHANGED <<shared, callerVars, workers, photoVars, audio, relay>>

\* camera.rs:262-266  elapsed = frame_start.elapsed(); sleep the remainder
\* of the interval when the cycle was shorter, whether it succeeded or not.
CyclePace ==
    /\ timing.pc = "pace"
    /\ LET elapsed == timing.now - timing.frameStart
           s == SleepFor(elapsed)
       IN  \E o \in (IF s > 0 THEN Oversleep ELSE {0}) :
             timing' = [timing EXCEPT
                 !.pc = "top", !.asked = s, !.now = timing.now + s + o,
                 !.runStart = IF elapsed < FrameInterval THEN @
                              ELSE timing.now + s + o,
                 !.runLen = IF elapsed < FrameInterval THEN @ + 1 ELSE 0]
    /\ UNCHANGED <<shared, callerVars, workers, photoVars, audio, relay>>

NextPace ==
    \/ CycleStart
    \/ CycleBreak
    \/ CycleWork
    \/ CyclePace

SpecPace == Init /\ [][NextPace]_vars

\* ------------------------------------------------------ system.rs: get_volume
\* Text is a sequence of one-character strings, so that splitting, slicing
\* and number parsing are computed on the characters the commands print.
\* The record `audio` holds one get_volume call: its position (pc), whether
\* `wpctl --version` and `pactl --version` succeed on this system (wpctl,
\* pactl), the outcome of running the volume command (run), the text it
\* prints (stdout) and the value returned (ret).

Digits == <<"0", "1", "2", "3", "4", "5", "6", "7", "8", "9">>

IsDigit(c) == \E i \in 1..10 : Digits[i] = c

DigitVal(c) == (CHOOSE i \in 1..10 : Digits[i] = c) - 1

IsWhitespace(c) == c \in {" ", "\n", "\t"}

\* The value of a sequence of decimal digits.
RECURSIVE DecimalValue(_)
DecimalValue(w) ==
    IF w = <<>> THEN 0
    ELSE 10 * DecimalValue(SubSeq(w, 1, Len(w) - 1)) + DigitVal(w[Len(w)])

AllDigits(w) == \A i \in 1..Len(w) : IsDigit(w[i])

\* str::split_whitespace: the maximal runs of non-whitespace characters.
RECURSIVE SplitFrom(_, _, _)
SplitFrom(s, i, word) ==
    IF i > Len(s) THEN (IF word = <<>> THEN <<>> ELSE <<word>>)
    ELSE IF IsWhitespace(s[i]) THEN
        (IF word = <<>> THEN <<>> ELSE <<word>>) \o SplitFrom(s, i + 1, <<>>)
    ELSE SplitFrom(s, i + 1, Append(word, s[i]))

SplitWhitespace(s) == SplitFrom(s, 1, <<>>)

\* str::lines: the text between line feeds, without a final empty line.
RECURSIVE LinesFrom(_, _, _)
LinesFrom(s, i, line) ==
    IF i > Len(s) THEN (IF line = <<>> THEN <<>> ELSE <<line>>)
    ELSE IF s[i] = "\n" THEN <<line>> \o LinesFrom(s, i + 1, <<>>)
    ELSE LinesFrom(s, i + 1, Append(line, s[i]))

Lines(s) == LinesFrom(s, 1, <<>>)

\* str::find from position `from` (1-based); 0 when the character is absent.
Find(s, c, from) ==
    LET I == {i \in from..Len(s) : s[i] = c}
    IN  IF I = {} THEN 0 ELSE CHOOSE i \in I : \A j \in I : i <= j

\* str::parse::<u8>: an optional '+', then one or more decimal digits whose
\* value fits in 8 bits.
ParseU8(w) ==
    LET d == IF w # <<>> /\ w[1] = "+" THEN SubSeq(w, 2, Len(w)) ELSE w
    IN  IF d # <<>> /\ AllDigits(d) /\ DecimalValue(d) <= 255
        THEN Some(DecimalValue(d)) ELSE None

\* str::parse::<f64> on decimal notation: an optional sign, integer digits,
\* optionally a point and fraction digits, with a digit somewhere.  The
\* number is kept as sign, integer part and fraction digits.  (Exponents
\* and the words inf / nan, which the commands do not print, are left out.)
ParseF64(w) ==
    LET signed == w # <<>> /\ w[1] \in {"+", "-"}
        body == IF signed THEN SubSeq(w, 2, Len(w)) ELSE w
        dot == Find(body, ".", 1)
        int == IF dot = 0 THEN body ELSE SubSeq(body, 1, dot - 1)
        frac == IF dot = 0 THEN <<>> ELSE SubSeq(body, dot + 1, Len(body))
    IN  IF AllDigits(int) /\ AllDigits(frac) /\ Len(int) + Len(frac) > 0
        THEN Some([neg |-> signed /\ w[1] = "-", int |-> int, frac |-> frac])
        ELSE None

\* (vol * 100.0).round(): hundredths of the number, rounded half away from
\* zero on the third fraction digit; the magnitude is returned.
TimesHundredRounded(v) ==
    LET f == v.frac \o <<"0", "0", "0">>
    IN  DecimalValue(v.int) * 100 + DigitVal(f[1]) * 10 + DigitVal(f[2])
        + (IF DigitVal(f[3]) >= 5 THEN 1 ELSE 0)

\* The conversion with a clamp to 100 before the cast.
RoundAsU8Clamped(v) ==
    IF v.neg THEN 0
    ELSE IF TimesHundredRounded(v) > 100 THEN 100 ELSE TimesHundredRounded(v)

\* system.rs:189  `(vol * 100.0).round() as u8`: the cast of f64 to u8
\* saturates, below at 0 and above at 255.
RoundAsU8(v) ==
    IF v.neg THEN 0
    ELSE IF TimesHundredRounded(v) > 255 THEN 255 ELSE TimesHundredRounded(v)

Min(a, b) == IF a < b THEN a ELSE b

\* str::trim_end_matches('%')
RECURSIVE TrimEndPercent(_)
TrimEndPercent(w) ==
    IF w # <<>> /\ w[Len(w)] = "%"
    THEN TrimEndPercent(SubSeq(w, 1, Len(w) - 1)) ELSE w

\* system.rs:19-42  wpctl first, then pactl, else ALSA.
detect_audio_backend(a) ==
    IF a.wpctl THEN "PipeWire" ELSE IF a.pactl THEN "PulseAudio" ELSE "Alsa"

\* The error of a command that cannot be spawned.
SpawnError == "No such file or directory (os error 2)"

\* system.rs:187-193  the first word that parses as f64 decides.
RECURSIVE PipewireWords(_)
PipewireWords(ws) ==
    IF ws = <<>> THEN Err("Failed to parse wpctl volume")
    ELSE IF ParseF64(ws[1]) # None THEN Ok(RoundAsU8(ParseF64(ws[1])[1]))
    ELSE PipewireWords(Tail(ws))

\* system.rs:175-195
get_volume_pipewire(a) ==
    IF a.run = "spawn_error" THEN Err("wpctl error: " \o SpawnError)
    ELSE IF a.run = "failed" THEN Err("wpctl get-volume failed")
    ELSE PipewireWords(SplitWhitespace(a.stdout))

\* system.rs:209-215  the first word ending in '%' whose number parses as
\* u8 decides.
RECURSIVE PulseaudioWords(_)
PulseaudioWords(ws) ==
    IF ws = <<>> THEN Err("Failed to parse pactl volume")
    ELSE IF /\ ws[1][Len(ws[1])] = "%"
            /\ ParseU8(TrimEndPercent(ws[1])) # None
         THEN Ok(Min(ParseU8(TrimEndPercent(ws[1]))[1], 100))
    ELSE PulseaudioWords(Tail(ws))

\* system.rs:197-218
get_volume_pulseaudio(a) ==
    IF a.run = "spawn_error" THEN Err("pactl error: " \o SpawnError)
    ELSE IF a.run = "failed" THEN Err("pactl get-sink-volume failed")
    ELSE PulseaudioWords(SplitWhitespace(a.stdout))

\* system.rs:233-239  the text between the first '[' of a line and the
\* first '%' after it, with start and end as 1-based positions.
AlsaSlice(line) ==
    LET start == Find(line, "[", 1)
        end == IF start = 0 THEN 0 ELSE Find(line, "%", start)
    IN  IF end = 0 THEN None ELSE Some(SubSeq(line, start + 1, end - 1))

\* system.rs:232-240  the first line whose slice parses as u8 decides.
RECURSIVE AlsaLines(_)
AlsaLines(ls) ==
    IF ls = <<>> THEN Err("Failed to parse amixer volume")
    ELSE IF AlsaSlice(ls[1]) # None /\ ParseU8(AlsaSlice(ls[1])[1]) # None
         THEN Ok(Min(ParseU8(AlsaSlice(ls[1])[1])[1], 100))
    ELSE AlsaLines(Tail(ls))

\* system.rs:220-243
get_volume_alsa(a) ==
    IF a.run = "spawn_error" THEN Err("amixer error: " \o SpawnError)
    ELSE IF a.run = "failed" THEN Err("amixer get Master failed")
    ELSE AlsaLines(Lines(a.stdout))

\* Pieces of the text the three commands print.
WpctlPrefix ==
    <<"V", "o", "l", "u", "m", "e", ":", " ">>

WpctlMuted ==
    <<" ", "[", "M", "U", "T", "E", "D", "]">>

WpctlNothing ==
    <<"V", "o", "l", "u", "m", "e", ":", " ", "n", "/", "a", "\n">>

PactlPrefix ==
    <<"V", "o", "l", "u", "m", "e", ":", " ", "f", "r", "o", "n", "t",
          "-", "l", "e", "f", "t", ":", " ", "3", "2", "7", "6", "8",
          " ", "/", " ", " ">>

PactlSuffix ==
    <<"%", " ", "/", " ", "-", "1", "8", ".", "0", "6", " ", "d", "B",
          "\n">>

AmixerPrefix ==
    <<" ", " ", "L", "i", "m", "i", "t", "s", ":", " ", "P", "l", "a",
          "y", "b", "a", "c", "k", " ", "0", " ", "-", " ", "6", "5",
          "5", "3", "6", "\n", " ", " ", "M", "o", "n", "o", ":", " ",
          "P", "l", "a", "y", "b", "a", "c", "k", " ", "3", "2", "7",
          "6", "8", " ", "[">>

AmixerSuffix ==
    <<"%", "]", " ", "[", "-", "1", "8", ".", "0", "6", "d", "B", "]",
          " ", "[", "o", "n", "]", "\n">>

AmixerNoLevel ==
    <<" ", " ", "L", "i", "m", "i", "t", "s", ":", " ", "P", "l", "a",
          "y", "b", "a", "c", "k", " ", "0", " ", "-", " ", "6", "5",
          "5", "3", "6", "\n">>

\* What `wpctl get-volume @DEFAULT_AUDIO_SINK@` prints: "Volume: 0.50" or
\* "Volume: 0.50 [MUTED]", the sink volume being 1.00 at 100% and above
\* 1.00 when the sink is amplified; or nothing usable.
WpctlOutputs ==
    {WpctlPrefix \o <<a, ".", b, c>> \o m \o <<"\n">> :
        a \in {"0", "1", "2"}, b \in {"0", "5", "6"}, c \in {"0", "5"},
        m \in {<<>>, WpctlMuted}}
    \cup {<<>>, WpctlNothing}

\* Percentages the PulseAudio and ALSA tools print, 150% being an amplified
\* sink and 300 a number that does not fit in u8.
Percents ==
    {<<"0">>, <<"5", "0">>, <<"1", "0", "0">>, <<"1", "5", "0">>,
     <<"3", "0", "0">>}

\* What `pactl get-sink-volume @DEFAULT_SINK@` prints.
PactlOutputs ==
    {PactlPrefix \o p \o PactlSuffix : p \in Percents}
    \cup {<<>>}

\* What `amixer get Master` prints.
AmixerOutputs ==
    {AmixerPrefix \o p \o AmixerSuffix : p \in Percents}
    \cup {<<>>, AmixerNoLevel}

OutputsOf(backend) ==
    IF backend = "PipeWire" THEN WpctlOutputs
    ELSE IF backend = "PulseAudio" THEN PactlOutputs
    ELSE AmixerOutputs

\* The systems and command outcomes a get_volume call may meet.
AudioInputs ==
    {a \in [pc : {"call"}, wpctl : BOOLEAN, pactl : BOOLEAN,
            run : {"spawn_error", "failed", "ok"},
            stdout : WpctlOutputs \cup PactlOutputs \cup AmixerOutputs,
            ret : {None}] :
        a.stdout \in OutputsOf(detect_audio_backend(a))}

InitVolume ==
    /\ CameraInit
    /\ timing = NoTiming
    /\ audio \in AudioInputs
    /\ relay = NoRelay

\* system.rs:165-173, PipeWire arm
GetVolumePipewire ==
    /\ audio.pc = "call"
    /\ detect_audio_backend(audio) = "PipeWire"
    /\ audio' = [audio EXCEPT !.pc = "done",
                              !.ret = Some(get_volume_pipewire(audio))]
    /\ UNCHANGED <<shared, callerVars, workers, photoVars, timing, relay>>

\* system.rs:165-173, PulseAudio arm
GetVolumePulseaudio ==
    /\ audio.pc = "call"
    /\ detect_audio_backend(audio) = "PulseAudio"
    /\ audio' = [audio EXCEPT !.pc = "done",
                              !.ret = Some(get_volume_pulseaudio(audio))]
    /\ UNCHANGED <<shared, callerVars, workers, photoVars, timing, relay>>

\* system.rs:165-173, ALSA arm
GetVolumeAlsa ==
    /\ audio.pc = "call"
    /\ detect_audio_backend(audio) = "Alsa"
    /\ audio' = [audio EXCEPT !.pc = "done",
                              !.ret = Some(get_volume_alsa(audio))]
    /\ UNCHANGED <<shared, callerVars, workers, photoVars, timing, relay>>

NextVolume ==
    \/ GetVolumePipewire
    \/ GetVolumePulseaudio
    \/ GetVolumeAlsa

SpecVolume == InitVolume /\ [][NextVolume]_vars

\* ------------------------- provisioning_ipc.rs, voice_agent_ipc.rs: relays
\* The record `relay` holds one listener: which relay it is (kind), its
\* position (pc), the `running` flag it was given, whether the socket path
\* exists on the file system (exists), the lines it has received (got), how
\* many of them on the connection opened last (conn), the events it has
\* emitted with their payloads (log) and the seconds of its last sleep
\* (slept).
\* A received line is the JSON value it holds when it is JSON text: the
\* members of the object that are present (Some) or missing (None).  A line
\* that is not JSON text has json = FALSE and keeps its text.

RelayKinds == {"provisioning", "voice_agent"}

\* voice_agent_ipc.rs:21-46  the names serde accepts for the event type
\* under rename_all = "snake_case", and the variant each one selects.
VoiceAgentEventType ==
    [session_started |-> "SessionStarted", session_ended |-> "SessionEnded",
     token_refreshed |-> "TokenRefreshed", token_error |-> "TokenError",
     quota_warning |-> "QuotaWarning", quota_exceeded |-> "QuotaExceeded",
     network_error |-> "NetworkError", error |-> "Error",
     quota_status |-> "QuotaStatus", ready |-> "Ready",
     listening |-> "Listening"]

Json(event, status, message, quota) ==
    [json |-> TRUE, text |-> "", event |-> event, status |-> status,
     message |-> message, quota |-> quota]

NotJson(text) ==
    [json |-> FALSE, text |-> text, event |-> None, status |-> None,
     message |-> None, quota |-> None]

\* A quota object with every member of QuotaInfo, and one that lacks some.
QuotaJson == [complete |-> TRUE, daily_limit |-> 100, daily_usage |-> 80]
QuotaJsonPartial == [complete |-> FALSE, daily_limit |-> 100, daily_usage |-> 0]

\* Lines the voice agent may write: every kind of event the relay tells
\* apart, with and without quota, and lines that do not deserialize.
VoiceLines ==
    {Json(Some("ready"), None, Some("ready"), None),
     Json(Some("quota_warning"), None, Some("quota low"), Some(QuotaJson)),
     Json(Some("quota_warning"), None, Some("quota low"), None),
     Json(Some("quota_exceeded"), None, Some("quota used up"), Some(QuotaJson)),
     Json(Some("quota_status"), None, Some("quota"), Some(QuotaJson)),
     Json(Some("error"), None, Some("failed"), None),
     Json(Some("token_error"), None, Some("token"), Some(QuotaJson)),
     Json(Some("network_error"), None, Some("offline"), None),
     NotJson("voice agent restarting"),
     Json(Some("ready"), None, None, None),
     Json(Some("QuotaWarning"), None, Some("quota low"), Some(QuotaJson)),
     Json(Some("quota_warning"), None, Some("quota low"),
          Some(QuotaJsonPartial))}

\* Lines the provisioning service may write.
ProvisioningLines ==
    {Json(None, Some("connecting"), Some("Connecting to WiFi"), None),
     Json(None, Some("connected"), Some("Connected"), None),
     NotJson("{\"status\": \"conn"),
     Json(None, Some("failed"), None, None),
     Json(Some("ready"), None, Some("ready"), None)}

LinesOf(kind) ==
    IF kind = "provisioning" THEN ProvisioningLines ELSE VoiceLines

\* voice_agent_ipc.rs:49-67  QuotaInfo from a JSON object: every member is
\* required.
ParseQuotaInfo(q) ==
    IF q.complete
    THEN Some([daily_limit |-> q.daily_limit, daily_usage |-> q.daily_usage])
    ELSE None

\* voice_agent_ipc.rs:162, 79-100  serde_json::from_str::<VoiceAgentStatus>:
\* event must name a variant, message is required, quota is optional but
\* must deserialize when present; other members are ignored.
ParseVoiceAgentStatus(l) ==
    IF /\ l.json
       /\ l.event # None
       /\ l.event[1] \in DOMAIN VoiceAgentEventType
       /\ l.message # None
       /\ (l.quota # None => ParseQuotaInfo(l.quota[1]) # None)
    THEN Some([event |-> VoiceAgentEventType[l.event[1]],
               message |-> l.message[1],
               quota |-> IF l.quota = None THEN None
                         ELSE ParseQuotaInfo(l.quota[1])])
    ELSE None

\* provisioning_ipc.rs:89, 12-26  serde_json::from_str::<ProvisioningStatus>:
\* status and message are required; other members are ignored.
ParseProvisioningStatus(l) ==
    IF l.json /\ l.status # None /\ l.message # None
    THEN Some([status |-> l.status[1], message |-> l.message[1]])
    ELSE None

Emit(name, payload) == [name |-> name, payload |-> payload]

\* The quota event follows every status that carries a quota.
VoiceEventsQuotaWheneverPresent(s) ==
    <<Emit("voice-agent-status", s)>>
    \o (IF s.quota # None
        THEN <<Emit("voice-agent-quota", s.quota[1])>> ELSE <<>>)
    \o (IF s.event \in {"Error", "TokenError", "NetworkError"}
        THEN <<Emit("voice-agent-error", s)>> ELSE <<>>)

\* voice_agent_ipc.rs:163-189  the events emitted for a parsed status.
VoiceEvents(s) ==
    <<Emit("voice-agent-status", s)>>
    \o (IF s.event \in {"QuotaWarning", "QuotaExceeded"} /\ s.quota # None
        THEN <<Emit("voice-agent-quota", s.quota[1])>>
        ELSE IF s.event \in {"Error", "TokenError", "NetworkError"}
        THEN <<Emit("voice-agent-error", s)>>
        ELSE <<>>)

\* provisioning_ipc.rs:88-102, voice_agent_ipc.rs:160-197  the events one
\* received line makes the relay emit; none when it does not deserialize.
EventsOf(kind, l) ==
    IF kind = "provisioning" THEN
        (IF ParseProvisioningStatus(l) = None THEN <<>>
         ELSE <<Emit("provisioning-status", ParseProvisioningStatus(l)[1])>>)
    ELSE
        (IF ParseVoiceAgentStatus(l) = None THEN <<>>
         ELSE VoiceEvents(ParseVoiceAgentStatus(l)[1]))

\* provisioning_ipc.rs:59, voice_agent_ipc.rs:128  seconds slept while the
\* socket path does not exist.
NoPathDelay(kind) == IF kind = "provisioning" THEN 2 ELSE 5

\* provisioning_ipc.rs:75, voice_agent_ipc.rs:143  seconds slept before
\* reconnecting.
ReconnectDelay(kind) == IF kind = "provisioning" THEN 2 ELSE 3

relayRest == <<shared, callerVars, workers, photoVars, timing, audio>>

\* provisioning_ipc.rs:30-41, voice_agent_ipc.rs:104-115  the listener
\* thread is spawned with running = true; it runs the loop unless the
\* tokio runtime cannot be created, in which case the thread panics.
RelayStart(k) ==
    /\ relay.pc = "off"
    /\ \E rt \in BOOLEAN :
         relay' = [relay EXCEPT !.kind = k, !.running = TRUE,
                                !.pc = IF rt THEN "top" ELSE "no_runtime"]
    /\ UNCHANGED relayRest

\* The peer service creates its socket.
SocketCreated ==
    /\ relay.pc # "off"
    /\ ~relay.exists
    /\ relay' = [relay EXCEPT !.exists = TRUE]
    /\ UNCHANGED relayRest

\* The socket file is removed.
SocketRemoved ==
    /\ relay.pc # "off"
    /\ relay.exists
    /\ relay' = [relay EXCEPT !.exists = FALSE]
    /\ UNCHANGED relayRest

\* provisioning_ipc.rs:52-61, voice_agent_ipc.rs:121-130  top of the loop:
\* the running flag, then the existence of the socket path.
RelayTop ==
    /\ relay.pc = "top"
    /\ relay' = [relay EXCEPT !.pc = IF ~relay.running THEN "exited"
                                     ELSE IF ~relay.exists THEN "nopath"
                                     ELSE "connect"]
    /\ UNCHANGED relayRest

\* provisioning_ipc.rs:59-60, voice_agent_ipc.rs:128-129  sleep, continue.
RelayNoPathSleep ==
    /\ relay.pc = "nopath"
    /\ relay' = [relay EXCEPT !.pc = "top",
                              !.slept = NoPathDelay(relay.kind)]
    /\ UNCHANGED relayRest

\* provisioning_ipc.rs:82, voice_agent_ipc.rs:155  UnixStream::connect: it
\* fails when nothing is at the path and may fail when nothing listens.
RelayConnect ==
    /\ relay.pc = "connect"
    /\ \E ok \in (IF relay.exists THEN BOOLEAN ELSE {FALSE}) :
         relay' = [relay EXCEPT !.pc = IF ok THEN "reading" ELSE "ended",
                                !.conn = IF ok THEN 0 ELSE @]
    /\ UNCHANGED relayRest

\* A line that does not deserialize ends the connection.
RelayLineEndsOnError(l) ==
    /\ relay.pc = "reading"
    /\ Len(relay.got) < MaxLines
    /\ l \in LinesOf(relay.kind)
    /\ relay' = [relay EXCEPT
           !.got = Append(@, l),
           !.conn = @ + 1,
           !.log = @ \o EventsOf(relay.kind, l),
           !.pc = IF EventsOf(relay.kind, l) = <<>> THEN "ended" ELSE @]
    /\ UNCHANGED relayRest

\* provisioning_ipc.rs:87-103, voice_agent_ipc.rs:160-197  next_line yields
\* a line: it is parsed and forwarded, or logged when it does not parse,
\* and the loop reads on.
RelayLine(l) ==
    /\ relay.pc = "reading"
    /\ Len(relay.got) < MaxLines
    /\ l \in LinesOf(relay.kind)
    /\ relay' = [relay EXCEPT !.got = Append(@, l),
                              !.conn = @ + 1,
                              !.log = @ \o EventsOf(relay.kind, l)]
    /\ UNCHANGED relayRest

\* provisioning_ipc.rs:87, 105, voice_agent_ipc.rs:160, 200  next_line
\* yields Ok(None) or Err: the loop ends and the function returns Ok.
RelayEnd ==
    /\ relay.pc = "reading"
    /\ relay' = [relay EXCEPT !.pc = "ended"]
    /\ UNCHANGED relayRest

\* provisioning_ipc.rs:65-75, voice_agent_ipc.rs:133-143  the outcome is
\* logged; sleep before the next round of the loop.
RelayWait ==
    /\ relay.pc = "ended"
    /\ relay' = [relay EXCEPT !.pc = "top",
                              !.slept = ReconnectDelay(relay.kind)]
    /\ UNCHANGED relayRest

NextRelay ==
    \/ \E k \in RelayKinds : RelayStart(k)
    \/ SocketCreated
    \/ SocketRemoved
    \/ RelayTop
    \/ RelayNoPathSleep
    \/ RelayConnect
    \/ \E l \in VoiceLines \cup ProvisioningLines : RelayLine(l)
    \/ RelayEnd
    \/ RelayWait

SpecRelay == Init /\ [][NextRelay]_vars

\* The listener task is scheduled and its timers fire: each of its own
\* steps is taken once it stays enabled.  Nothing is assumed of the peer.
SpecRelayLive ==
    /\ SpecRelay
    /\ WF_vars(RelayTop)
    /\ WF_vars(RelayNoPathSleep)
    /\ WF_vars(RelayConnect)
    /\ WF_vars(RelayWait)


TypeOK ==
    /\ CAMERA_RUNNING \in BOOLEAN
    /\ STOP_SIGNAL \in BOOLEAN
    /\ LATEST_FRAME \in {None} \cup {Some(f) : f \in Frames}
    /\ \A w \in Threads :
         /\ workers[w].jpeg \in {None} \cup Frames
         /\ workers[w].sent \in {None} \cup {Some(CameraFrame(f)) : f \in Frames}
    /\ \A c \in Callers : attempts[c] \in 0..StopAttempts
    /\ capture.pc \in {"idle", "dir", "write"}
    /\ capture.data \in {None} \cup Frames
    /\ capture.path \in {None} \cup {Some(n) : n \in FileNames}
    /\ fs.dir \in BOOLEAN
    /\ \A n \in FileNames : fs.files[n] \in {None} \cup {Some(f) : f \in Frames}

\* ======================================================================
\* Properties
\* ======================================================================
Other(c) == Callers \ {c}
Others(w) == Threads \ {w}

\* Thread w made a step of run_camera_stream.
Stepped(w) == workers'[w] # workers[w]

\* C1: under every interleaving of start and stop calls at most one
\* run_camera_stream worker is active, and at most one worker holds a Camera.
C1_AtMostOneWorker ==
    /\ Cardinality({w \in Threads : Live(w)}) <= 1
    /\ Cardinality({w \in Threads : workers[w].cam}) <= 1

\* A worker that has not begun its cleanup and did not fail to open the
\* device: it can still reach camera.rs:240 and publish.
CanStillPublish(w) ==
    workers[w].pc \in {"spawned", "camera_new", "open_stream", "loop", "publish", "emit"}

\* C2: whenever stop_camera_stream returns Ok, at that moment LATEST_FRAME is
\* empty, CAMERA_RUNNING is false and no worker of an earlier completed start
\* can still publish a frame.
C2_StopOkMeansStopped ==
    [][\A c \in Callers :
         (pc'[c] \in StopOk /\ pc'[c] # pc[c]) =>
             /\ LATEST_FRAME' = None
             /\ ~CAMERA_RUNNING'
             /\ \A w \in Threads : ~CanStillPublish(w)']_vars

\* C3: a start request issued while not running has itself set
\* CAMERA_RUNNING by the time it returns "started", having spawned one worker.
C3_StartMarksRunning ==
    [][\A c \in Callers :
         (pc[c] = "start_spawn" /\ pc'[c] = "started") =>
             /\ CAMERA_RUNNING'
             /\ Cardinality({w \in Threads : Stepped(w)}) = 1]_vars

\* C4: a start call that observes CAMERA_RUNNING == true returns
\* "already_running" at once, spawns no worker and leaves CAMERA_RUNNING,
\* STOP_SIGNAL and LATEST_FRAME as they are; a start call goes on to the reset
\* and the spawn only when it observed CAMERA_RUNNING == false.
C4_StartNoop ==
    [][\A c \in Callers :
         /\ (pc'[c] = "already_running" /\ pc'[c] # pc[c]) =>
                (Idle(c) /\ CAMERA_RUNNING /\ UNCHANGED <<shared, workers>>)
         /\ (Idle(c) /\ pc'[c] = "start_reset") => ~CAMERA_RUNNING]_vars

\* A start has returned "already_running" while a stop request is pending:
\* the stop flag is still set and the stopping caller still polls.
C4_Witness ==
    \E c \in Callers :
        /\ pc[c] = "already_running"
        /\ STOP_SIGNAL
        /\ \E d \in Other(c) : pc[d] = "stop_poll"

\* C5: a stop call that got past the running check returns Ok as soon as a
\* poll of CAMERA_RUNNING saw false: when the loop of camera.rs:94 ended
\* because its load returned false, the call returns "stopped".
C5_OkOncePollSeesStopped ==
    [][\A c \in Callers :
         (pc[c] = "stop_final" /\ ~lastSeen[c] /\ pc'[c] # pc[c]) =>
             pc'[c] = "stopped"]_vars

\* C6: a stop call that times out changes neither CAMERA_RUNNING nor
\* STOP_SIGNAL nor LATEST_FRAME nor any worker, and the next stop call of the
\* same caller starts over: the running check, the signal, attempts = 0.
C6_TimeoutLeavesState ==
    [][\A c \in Callers :
         /\ (pc'[c] = "timeout" /\ pc'[c] # pc[c]) =>
                /\ pc[c] = "stop_final"
                /\ CAMERA_RUNNING
                /\ UNCHANGED <<shared, workers>>
                /\ attempts'[c] = 0
         /\ (pc[c] = "timeout" /\ pc'[c] \in StopPcs \cup StopResults /\ pc'[c] # pc[c]) =>
                /\ pc'[c] = IF CAMERA_RUNNING THEN "stop_signal" ELSE "not_running"
                /\ UNCHANGED <<shared, workers>>
         /\ (pc[c] = "stop_signal" /\ pc'[c] # pc[c]) =>
                /\ pc'[c] = "stop_poll"
                /\ attempts'[c] = 0
                /\ STOP_SIGNAL']_vars

\* A stop call used up its 50 polls, each of which saw CAMERA_RUNNING, and is
\* at the load of camera.rs:99 that returns the timeout: a worker is still
\* streaming and the request is still pending.
C6_Witness ==
    \E c \in Callers :
        /\ pc[c] = "stop_final"
        /\ lastSeen[c]
        /\ CAMERA_RUNNING
        /\ STOP_SIGNAL
        /\ \E w \in Threads : Streaming(w)

\* C7: a stop call that finds CAMERA_RUNNING false returns at once and changes
\* nothing; in particular, when one caller issues start, stop, stop and
\* nobody else issues anything, the stop that follows an Ok stop returns
\* "not_running" without signalling or polling.
C7_SecondStopImmediate ==
    [][\A c \in Callers :
         ( /\ pc[c] \in StopOk
           /\ \A d \in Other(c) : pc[d] = "idle"
           /\ pc'[c] # pc[c]
           /\ pc'[c] \notin {"start_reset", "already_running"} ) =>
             (pc'[c] = "not_running" /\ UNCHANGED <<shared, workers>>)]_vars

\* A worker between the beginning of device acquisition and the end of its
\* release of the device and of the slot.
InSession(w) ==
    workers[w].pc \in {"camera_new", "open_stream", "loop", "publish", "emit", "clear_frame"}

\* C8: CAMERA_RUNNING is true whenever some worker is in its session;
\* CAMERA_RUNNING false implies no open stream and an empty LATEST_FRAME.
C8_RunningCoversSession ==
    /\ \A w \in Threads : InSession(w) => CAMERA_RUNNING
    /\ ~CAMERA_RUNNING => (LATEST_FRAME = None /\ \A w \in Threads : ~Streaming(w))

\* C9: a worker whose Camera::new or open_stream failed has emitted exactly
\* one camera-error, has published nothing and emitted no camera-frame, and
\* its only further step stores CAMERA_RUNNING = false and ends the thread,
\* leaving LATEST_FRAME alone; the failure happens before the capture loop.
C9_FatalOpen ==
    [][\A w \in Threads :
         /\ workers'[w].fatal =>
                /\ workers'[w].pc = "err_store"
                /\ workers'[w].errEv = 1
                /\ workers'[w].pubs = 0
                /\ workers'[w].frameEv = 0
                /\ ~workers'[w].stream
         /\ (workers[w].fatal /\ Stepped(w)) =>
                /\ workers'[w] = NoWorker
                /\ ~CAMERA_RUNNING'
                /\ UNCHANGED <<STOP_SIGNAL, LATEST_FRAME>>
         /\ (~workers[w].fatal /\ workers'[w].fatal) =>
                /\ workers[w].pc \in {"camera_new", "open_stream"}
                /\ workers[w].errEv = 0
                /\ UNCHANGED shared]_vars

\* A worker failed in open_stream (it holds a Camera) and is about to clear
\* CAMERA_RUNNING.
C9_Witness ==
    \E w \in Threads :
        /\ workers[w].fatal
        /\ workers[w].cam
        /\ CAMERA_RUNNING

\* C10: a worker leaves the capture loop only on observing STOP_SIGNAL, and
\* then stops the stream, empties LATEST_FRAME, clears CAMERA_RUNNING, clears
\* STOP_SIGNAL, in this order, and ends; when no other worker is alive at
\* that moment the slot is empty and both flags are false.
C10_CleanupOrder ==
    [][\A w \in Threads :
         /\ (workers'[w].pc = "clear_frame" /\ Stepped(w)) =>
                /\ workers[w].pc = "loop"
                /\ STOP_SIGNAL
                /\ workers[w].stream /\ ~workers'[w].stream
                /\ UNCHANGED shared
         /\ (workers[w].pc = "clear_frame" /\ Stepped(w)) =>
                /\ workers'[w].pc = "clear_running"
                /\ LATEST_FRAME' = None
                /\ UNCHANGED <<CAMERA_RUNNING, STOP_SIGNAL>>
         /\ (workers[w].pc = "clear_running" /\ Stepped(w)) =>
                /\ workers'[w].pc = "reset_stop"
                /\ ~CAMERA_RUNNING'
                /\ UNCHANGED <<STOP_SIGNAL, LATEST_FRAME>>
         /\ (workers[w].pc = "reset_stop" /\ Stepped(w)) =>
                /\ workers'[w] = NoWorker
                /\ ~STOP_SIGNAL'
                /\ UNCHANGED <<CAMERA_RUNNING, LATEST_FRAME>>
                /\ (\A v \in Others(w) : ~Live(v)) =>
                       (LATEST_FRAME' = None /\ ~CAMERA_RUNNING')]_vars

\* A worker that published a frame is at the last step of its cleanup, alone:
\* the slot is already empty and CAMERA_RUNNING already false, STOP_SIGNAL
\* still set.
C10_Witness ==
    \E w \in Threads :
        /\ workers[w].pc = "reset_stop"
        /\ workers[w].pubs > 0
        /\ \A v \in Others(w) : ~Live(v)
        /\ LATEST_FRAME = None
        /\ ~CAMERA_RUNNING
        /\ STOP_SIGNAL

PhotoStepped == capture' # capture

\* C12: whatever the interleaving of capture_photo's read with the workers'
\* publishes and the cleanup's clear, the read (camera.rs:110-113) yields
\* either empty or the whole value the slot holds, and that value is always
\* the complete buffer of one cycle: the slot changes to a frame only in a
\* publish step, which stores the publishing cycle's entire jpeg_bytes.
C12_ReadsNeverTorn ==
    [][/\ (capture.pc = "idle" /\ PhotoStepped) =>
            IF LATEST_FRAME = None
            THEN capture'.data = None
            ELSE capture'.data \in Frames /\ Some(capture'.data) = LATEST_FRAME
       /\ LATEST_FRAME' # None =>
            /\ LATEST_FRAME'[1] \in Frames
            /\ \E w \in Threads : workers'[w].pubs > 0
       /\ (LATEST_FRAME' # LATEST_FRAME /\ LATEST_FRAME' # None) =>
            \E w \in Threads :
                /\ At(w, "publish") /\ Stepped(w)
                /\ workers[w].jpeg \in Frames
                /\ LATEST_FRAME' = Some(workers[w].jpeg)]_vars

\* capture_photo holds the frame it read while the worker that published it
\* has not yet emitted it.
C12_Witness ==
    /\ capture.pc = "dir"
    /\ \E w \in Threads : At(w, "emit") /\ capture.data = workers[w].jpeg

\* C13: capture_photo called while LATEST_FRAME is empty ends in its first
\* step: it returns Ok with success = false, an empty path and the "No frame
\* available" error, has emitted exactly one photo-saved event carrying that
\* result, and never reaches the directory lookup, the directory creation or
\* the write: the file system is untouched.
C13_EmptySlotResult ==
    [][(capture.pc = "idle" /\ PhotoStepped /\ LATEST_FRAME = None) =>
          /\ capture'.pc = "idle"
          /\ capture'.ret[1] = "Ok"
          /\ capture'.ret[2] =
                [path |-> "", success |-> FALSE,
                 error |-> <<"No frame available. Is the camera streaming?">>]
          /\ capture'.events = <<capture'.ret[2]>>
          /\ fs' = fs]_vars

\* capture_photo has returned the no-frame result before any stream ran.
C13_Witness ==
    /\ capture.pc = "idle"
    /\ capture.ret # None
    /\ capture.ret[1] = "Ok"
    /\ ~capture.ret[2].success
    /\ Len(capture.events) = 1
    /\ LATEST_FRAME = None
    /\ ~fs.dir
    /\ \A w \in Threads : ~Live(w)

\* C14: the bytes capture_photo writes are the bytes it read: the read takes
\* the slot's content, the content is carried unchanged to the write, and a
\* successful write stores exactly it under the resolved path and touches no
\* other file, whatever the workers did to the slot in between.
C14_WritesWhatItRead ==
    [][PhotoStepped =>
          /\ (capture.pc = "idle" /\ LATEST_FRAME # None) =>
                Some(capture'.data) = LATEST_FRAME
          /\ (capture.pc = "dir" /\ capture'.pc = "write") =>
                capture'.data = capture.data
          /\ (capture.pc = "write" /\ capture'.ret[2].success) =>
                /\ fs'.files[capture.path[1]] = Some(capture.data)
                /\ \A n \in FileNames \ {capture.path[1]} :
                      fs'.files[n] = fs.files[n]]_vars

\* A photo was written whose bytes the slot no longer holds: the session
\* ended and the cleanup emptied the slot.
C14_Witness ==
    /\ capture.pc = "idle"
    /\ capture.ret # None
    /\ capture.ret[1] = "Ok"
    /\ capture.ret[2].success
    /\ fs.files[capture.ret[2].path] \in {Some(f) : f \in Frames}
    /\ LATEST_FRAME # fs.files[capture.ret[2].path]

\* C15: no step of capture_photo, whatever its outcome, changes LATEST_FRAME,
\* CAMERA_RUNNING or STOP_SIGNAL, and none creates, advances or ends a worker.
C15_CaptureLeavesStream ==
    [][PhotoStepped => UNCHANGED <<LATEST_FRAME, CAMERA_RUNNING, STOP_SIGNAL, workers>>]_vars

\* A photo was taken during a session: the stream is still running and the
\* slot still holds the frame that was saved.
C15_Witness ==
    /\ capture.pc = "idle"
    /\ capture.ret # None
    /\ capture.ret[1] = "Ok"
    /\ capture.ret[2].success
    /\ CAMERA_RUNNING
    /\ \E w \in Threads : Streaming(w)
    /\ LATEST_FRAME = fs.files[capture.ret[2].path]

\* C16: whenever capture_photo has returned, in whichever outcome (empty
\* slot, pictures directory not resolved, camera directory not created,
\* write failure, success), what it returned is Ok(PhotoSaved) and it has
\* emitted exactly one photo-saved event, whose payload is the result.
C16_AlwaysStructuredResult ==
    capture.ret # None =>
        /\ capture.ret[1] = "Ok"
        /\ capture.events = <<capture.ret[2]>>

\* The path the photo of instant t is expected under, written out by hand.
C17_ExpectedPath(t) ==
    IF t.month = 1
    THEN "/home/pi/Pictures/honeybee-camera/IMG_20260105_090307.jpg"
    ELSE "/home/pi/Pictures/honeybee-camera/IMG_20261123_143000.jpg"

\* C17: with a frame present, once the directory steps succeeded the camera
\* directory exists (created if it was absent) and the path is
\* <pictures dir>/honeybee-camera/IMG_<YYYYMMDD_HHMMSS>.jpg for the local time
\* read in the call; the write step then either succeeds, returning
\* success = true, no error and that non-empty path, with the file in place,
\* or fails, returning success = false, an empty path and the I/O message.
C17_PhotoResult ==
    [][PhotoStepped =>
          /\ capture'.pc = "write" =>
                /\ fs'.dir
                /\ capture'.path = Some(C17_ExpectedPath(capture'.now[1]))
          /\ capture.pc = "write" =>
                /\ capture'.ret[1] = "Ok"
                /\ \/ /\ capture'.ret[2] =
                            [path |-> C17_ExpectedPath(capture.now[1]),
                             success |-> TRUE, error |-> None]
                      /\ capture'.ret[2].path # ""
                      /\ fs'.files[capture'.ret[2].path] # None
                   \/ /\ capture'.ret[2] =
                            [path |-> "", success |-> FALSE,
                             error |-> <<"Failed to save photo: Permission denied (os error 13)">>]
                      /\ fs' = fs]_vars

\* A photo taken in the afternoon of 23 November was saved, in a directory
\* that capture_photo created.
C17_Witness ==
    /\ capture.pc = "idle"
    /\ capture.ret # None
    /\ capture.ret[1] = "Ok"
    /\ capture.ret[2].success
    /\ capture.ret[2].path = "/home/pi/Pictures/honeybee-camera/IMG_20261123_143000.jpg"
    /\ fs.dir
    /\ fs.files[capture.ret[2].path] # None

\* C18: latest frame wins.  The publish step of a successful cycle leaves in
\* the slot exactly that cycle's frame, whatever the slot held before; the
\* slot never holds more than one frame; and its content changes only by a
\* publish (to the published frame) or by the cleanup's clear, so that what
\* it holds is always the most recently published frame.
C18_LatestFrameWins ==
    [][/\ Len(LATEST_FRAME') <= 1
       /\ \A w \in Threads :
            (At(w, "publish") /\ Stepped(w)) =>
                LATEST_FRAME' = Some(workers[w].jpeg)
       /\ LATEST_FRAME' # LATEST_FRAME =>
            \E w \in Threads :
                /\ Stepped(w)
                /\ \/ At(w, "publish")
                   \/ At(w, "clear_frame") /\ LATEST_FRAME' = None]_vars

\* Two cycles have published different frames and the slot holds one of
\* them: the later publish replaced the earlier frame.
C18_Witness ==
    \E w \in Threads : \E v \in Others(w) :
        /\ At(w, "emit") /\ At(v, "emit")
        /\ workers[w].jpeg # workers[v].jpeg
        /\ LATEST_FRAME = Some(workers[w].jpeg)

\* C19: in a successful cycle the bytes encoded once are used twice.  The
\* publish step stores the cycle's jpeg_bytes in the slot and emits nothing;
\* it is followed by the emit step, which emits the cycle's one camera-frame
\* event; decoding the base64 text of that event gives back exactly the bytes
\* that were stored.  A camera-frame event is emitted in no other step.
C19_EncodeOnceUseTwice ==
    [][\A w \in Threads :
          Stepped(w) =>
            /\ At(w, "publish") =>
                  /\ LATEST_FRAME' = Some(workers[w].jpeg)
                  /\ workers'[w].pc = "emit"
                  /\ workers'[w].jpeg = workers[w].jpeg
                  /\ workers'[w].frameEv = workers[w].frameEv
                  /\ workers'[w].sent = None
            /\ At(w, "emit") =>
                  /\ workers'[w].sent # None
                  /\ workers'[w].sent[1].prefix = "data:image/jpeg;base64,"
                  /\ Base64Decode(workers'[w].sent[1].b64) = workers[w].jpeg
                  /\ workers'[w].frameEv = workers[w].frameEv + 1
                  /\ workers'[w].frameEv = workers[w].pubs
            /\ workers'[w].pc = "emit" => At(w, "publish")
            /\ (workers'[w].frameEv > workers[w].frameEv \/ workers'[w].sent # None)
                  => At(w, "emit")]_vars

\* A cycle has emitted its event, and the event's decoded bytes are the bytes
\* the slot holds.
C19_Witness ==
    \E w \in Threads :
        /\ At(w, "pace")
        /\ workers[w].sent # None
        /\ LATEST_FRAME = Some(Base64Decode(workers[w].sent[1].b64))

\* C20: a cycle whose frame pull, decode or encode fails goes from the top
\* of the loop straight to the pacing: it emits no camera-frame and no
\* camera-error event, publishes nothing, changes none of LATEST_FRAME,
\* CAMERA_RUNNING and STOP_SIGNAL and keeps the device and the stream; after
\* the pacing the worker is at the top of the loop again.  A worker ends only
\* through the fatal path, entered from Camera::new or open_stream, or
\* through the cleanup, entered from the top of the loop with STOP_SIGNAL set.
C20_FailedCycleHarmless ==
    [][\A w \in Threads :
          Stepped(w) =>
            /\ (At(w, "loop") /\ workers'[w].pc = "pace") =>
                  /\ workers'[w] = [workers[w] EXCEPT !.pc = "pace"]
                  /\ workers'[w].sent = None
                  /\ workers'[w].cam /\ workers'[w].stream
                  /\ UNCHANGED <<LATEST_FRAME, CAMERA_RUNNING, STOP_SIGNAL>>
            /\ At(w, "pace") =>
                  /\ workers'[w].pc = "loop"
                  /\ workers'[w].frameEv = workers[w].frameEv
                  /\ workers'[w].errEv = workers[w].errEv
                  /\ UNCHANGED <<LATEST_FRAME, CAMERA_RUNNING, STOP_SIGNAL>>
            /\ workers'[w].pc = "err_store" =>
                  At(w, "camera_new") \/ At(w, "open_stream")
            /\ workers'[w].pc = "clear_frame" => At(w, "loop") /\ STOP_SIGNAL
            /\ workers'[w].pc = "free" =>
                  \/ At(w, "err_store") /\ ~workers[w].stream
                  \/ At(w, "reset_stop")]_vars

\* A worker that published a frame is pacing after a failed cycle: the slot
\* still holds a frame and the stream is still marked running.
C20_Witness ==
    \E w \in Threads :
        /\ At(w, "pace")
        /\ workers[w].sent = None
        /\ workers[w].pubs > 0
        /\ workers[w].stream
        /\ LATEST_FRAME # None
        /\ CAMERA_RUNNING

\* The positions of a cycle past the top of the loop, and of the cleanup.
MidCycle == {"publish", "emit", "pace"}
Draining == {"clear_frame", "clear_running", "reset_stop"}

Unobserved(w) ==
    workers[w].pc \in {"camera_new", "open_stream", "loop"} \cup MidCycle

\* C23: a stop request is never lost: while the request of a
\* stop_camera_stream call is pending (the call has stored STOP_SIGNAL = true
\* and is waiting for CAMERA_RUNNING to clear) and a worker that has not yet
\* observed the flag is streaming, no step sets STOP_SIGNAL back to false.
C23_StopNeverLost ==
    [][(/\ STOP_SIGNAL
        /\ \E c \in Callers : pc[c] = "stop_poll"
        /\ \E w \in Threads : Unobserved(w) /\ Streaming(w))
       => STOP_SIGNAL']_vars

C26_StartResetsStop ==
    [][/\ \A c \in Callers :
            /\ (pc'[c] # pc[c] /\ pc'[c] = "start_spawn") =>
                  pc[c] = "start_reset" /\ ~STOP_SIGNAL'
            /\ (pc'[c] = "start_spawn" /\ STOP_SIGNAL') =>
                  \E d \in Other(c) : pc'[d] \notin {"idle", "started", "start_spawn"}
       /\ (~STOP_SIGNAL /\ STOP_SIGNAL') =>
            \E d \in Callers : pc[d] = "stop_signal" /\ pc'[d] = "stop_poll"
       /\ \A w \in Threads :
            (Stepped(w) /\ workers'[w].pc = "clear_frame") => STOP_SIGNAL]_vars

\* A start has passed its check while STOP_SIGNAL is still set from a stop
\* requested during the opening of a worker that then failed: no worker is
\* left and no stop is in flight.
C26_Witness ==
    \E c \in Callers :
        /\ pc[c] = "start_reset"
        /\ STOP_SIGNAL /\ ~CAMERA_RUNNING
        /\ \A w \in Threads : ~Live(w)
        /\ \A d \in Other(c) : pc[d] = "stopped"

\* Instants t and u lie in the same second of local time.
SameSecond(t, u) == [t EXCEPT !.milli = 0] = [u EXCEPT !.milli = 0]

\* The paths of the photos taken in the second of instant t.
PathsOfSecond(t) == {PhotoPath(u) : u \in {v \in Instants : SameSecond(v, t)}}

\* C28: the path depends on the local time at second resolution only: every
\* instant of the same second gives the path the call resolved.  A successful
\* write replaces whatever an earlier call of that second left under the
\* path, so that afterwards the file holds the bytes of the later write and
\* it is the one file of that second.
C28_SameSecondSamePath ==
    [][PhotoStepped =>
          /\ capture'.pc = "write" =>
                PathsOfSecond(capture'.now[1]) = {capture'.path[1]}
          /\ (capture.pc = "write" /\ capture'.ret[2].success) =>
                /\ fs'.files[capture.path[1]] = Some(capture.data)
                /\ {n \in PathsOfSecond(capture.now[1]) : fs'.files[n] # None}
                      = {capture.path[1]}]_vars

\* A later call of the same second is about to write other bytes over the
\* file an earlier one left.
C28_Witness ==
    /\ capture.pc = "write"
    /\ capture.now[1].milli = 870
    /\ fs.files[capture.path[1]] # None
    /\ fs.files[capture.path[1]] # Some(capture.data)

\* C21: a cycle that took elapsed ms hands exactly max(0, 40 - elapsed) to
\* the sleep and resumes no earlier than that; a cycle of 40 ms or more adds
\* no delay, and the next cycle's sleep depends on its own elapsed time only
\* (no catch-up); a run of N consecutive short cycles takes at least N * 40
\* ms on the clock.
C21_PacedAt40ms ==
    [][timing.pc = "pace" /\ timing'.pc = "top" =>
         LET elapsed == timing.now - timing.frameStart IN
         /\ timing'.asked = (IF elapsed < 40 THEN 40 - elapsed ELSE 0)
         /\ timing'.now >= timing.now + timing'.asked
         /\ elapsed >= 40 => timing'.now = timing.now
         /\ timing'.now - timing'.runStart >= timing'.runLen * 40]_vars

\* Three short cycles in a row right after an overrun cycle, the last of
\* them sleeping the remainder of its own interval.
C21_Witness ==
    /\ timing.pc = "top"
    /\ timing.runLen = 3
    /\ timing.runStart > 0
    /\ timing.asked > 0
    /\ timing.now - timing.runStart >= 120

\* C27: the pacing sleep follows a failed cycle as it follows a successful
\* one: a failed cycle sleeps max(0, 40 - elapsed), and a new cycle never
\* begins less than 40 ms after the previous one began.
C27_FailedCyclesPaced ==
    [][/\ (timing.pc = "pace" /\ timing'.pc = "top" /\ ~timing.ok =>
              LET elapsed == timing.now - timing.frameStart IN
              /\ timing'.asked = (IF elapsed < 40 THEN 40 - elapsed ELSE 0)
              /\ timing'.now - timing.frameStart >= 40)
       /\ (timing.pc = "top" /\ timing'.pc = "work" /\ timing.now > 0 =>
              timing'.frameStart - timing.frameStart >= 40)]_vars

\* A cycle begins right after a failed short cycle that slept.
C27_Witness ==
    /\ timing.pc = "work"
    /\ ~timing.ok
    /\ timing.asked > 0
    /\ timing.frameStart = timing.now
    /\ timing.now > 0

\* C25: a get_volume call that returns Ok returns a percentage in 0..100,
\* on every audio backend and whatever volume the backend reports.
C25_VolumeInRange ==
    audio.pc = "done" /\ audio.ret[1][1] = "Ok" => audio.ret[1][2] \in 0..100

\* The events a step of the relay added to its log.
Emitted == SubSeq(relay'.log, Len(relay.log) + 1, Len(relay'.log))

GotLine == Len(relay'.got) = Len(relay.got) + 1

Malformed(l) ==
    IF relay.kind = "provisioning" THEN ParseProvisioningStatus(l) = None
    ELSE ParseVoiceAgentStatus(l) = None

\* C30: in both relays a line that fails to parse emits nothing and leaves
\* the connection reading, and a later well-formed line is forwarded; the
\* listener never leaves its loop; after a connection ends or fails it
\* sleeps and goes back to the top of the loop, from where it connects
\* again whenever the socket path exists.
C30_RelayKeepsGoing ==
    /\ [][/\ (GotLine /\ Malformed(relay'.got[Len(relay'.got)]) =>
                /\ relay'.log = relay.log
                /\ relay'.pc = "reading")
          /\ (GotLine /\ ~Malformed(relay'.got[Len(relay'.got)]) =>
                Len(relay'.log) > Len(relay.log))
          /\ relay'.pc # "exited"
          /\ (relay.pc = "ended" /\ relay'.pc # "ended" =>
                relay'.pc = "top" /\ relay'.slept > 0)
          /\ (relay.pc = "top" /\ relay'.pc # "top" /\ relay.exists =>
                relay'.pc = "connect")]_vars
    /\ (relay.pc = "ended") ~> (relay.pc = "connect" \/ ~relay.exists)

\* After a malformed line a well-formed line of the same connection was
\* forwarded, the connection then ended and the listener, having slept, is
\* connecting again.
C30_Witness ==
    /\ relay.pc = "connect"
    /\ relay.slept = ReconnectDelay(relay.kind)
    /\ Len(relay.got) = 2
    /\ relay.conn = 2
    /\ Malformed(relay.got[1])
    /\ ~Malformed(relay.got[2])
    /\ Len(relay.log) > 0

====
